---- MODULE Spec2Model ----
(***************************************************************************)
(* State-machine model of the intersection simulation of src/app.py:       *)
(* Vehicle, Lane, TrafficSignal, Intersection, DynamicPriorityLogic and    *)
(* StreamlitSimulation.  One action per public operation; each action is   *)
(* the whole method, including the calls it makes.                         *)
(***************************************************************************)
EXTENDS Integers, Sequences, FiniteSets, TLC

\* ------------------------------------------------------------------------
\* Bounds of the model (not program constants).
\* ------------------------------------------------------------------------
\* Under Spec (every operation, called by any client): step() is not taken
\* once current_time has reached MaxTime, and no Vehicle is constructed once
\* Vehicle._id_counter has reached MaxVehicles.
MaxTime == 6
MaxVehicles == 1
\* Under SpecSim (the dashboard's loop: step() and the injection buttons).
MaxSimTime == 11
MaxSimVehicles == 2
\* Durations of the scaled configuration.  min_green_duration and
\* yellow_duration are TrafficSignal's constructor parameters (defaults 10 and
\* 3), MAX_WAIT_THRESHOLD a field of the logic (120) and the dwell a parameter
\* of the simulation (10 to 60); the code only compares elapsed ticks with
\* them, and the scaled values keep yellow < min green <= threshold.
ScaledMinGreen == 3
ScaledYellow == 2
ScaledMaxWait == 3
ScaledDwell == 3
\* Under SpecScenario (a profile whose spawn probabilities are all 0, the
\* default durations): the number of step() calls, the vehicles injected, and
\* the largest dwell of the slider that is tried.
MaxScenarioTime == 80
MaxScenarioVehicles == 1
MaxScenarioDwell == 20
\* Under SpecDecide (few ticks, more vehicles: the inputs of decide_next_phase).
MaxDecideTime == 6
MaxDecideVehicles == 3
\* Under SpecPair (two simulation instances in one process).
MaxPairTime == 6
MaxPairVehicles == 2
\* Under SpecConfig (an intersection constructed from any lane list).
MaxConfigTime == 6
MaxConfigVehicles == 1
MaxQueryTime == 6
MaxQueryVehicles == 2
\* Under SpecPriority (the AI simulation's buttons, with no successful spawn draw).
MaxPriorityTime == 8
MaxPriorityVehicles == 4
PriorityMinGreen == 1

\* ------------------------------------------------------------------------
\* Program constants.
\* ------------------------------------------------------------------------
\* DynamicPriorityLogic weights, in tenths (car_weight 1.0, wait_time_weight 0.5):
\* every score below is ten times the code's score, an exact integer, so the
\* code's round(score, 2) only removes floating-point noise.
W1 == 10
W2 == 5

\* TrafficSignal.__init__ defaults, DynamicPriorityLogic.MAX_WAIT_THRESHOLD
DefaultMinGreen == 10
DefaultYellow == 3
DefaultMaxWait == 120

\* The dashboard's slider for the fixed timer: st.sidebar.slider(.., 10, 60, 20, 5)
MinDwell == 10
MaxDwell == 60
DwellStep == 5
DefaultDwell == 20

None == "None"

\* Intersection.PHASES, in declaration (dict) order.
PhaseOrder ==
    << "NS_Straight", "EW_Straight", "N_Left", "S_Left", "E_Left", "W_Left" >>

PHASES ==
    [ NS_Straight |-> << "north_straight", "south_straight" >>,
      EW_Straight |-> << "east_straight", "west_straight" >>,
      N_Left      |-> << "north_left" >>,
      S_Left      |-> << "south_left" >>,
      E_Left      |-> << "east_left" >>,
      W_Left      |-> << "west_left" >> ]

PhaseNames == { PhaseOrder[i] : i \in 1..Len(PhaseOrder) }

\* StreamlitSimulation._setup_intersection: the lane ids, in dict order.
LaneOrder ==
    << "north_straight", "north_left", "south_straight", "south_left",
       "east_straight", "east_left", "west_straight", "west_left" >>

LaneIds == { LaneOrder[i] : i \in 1..Len(LaneOrder) }

\* A phase name that is not a key of PHASES, and a lane id that is no lane.
UnknownPhase == "Bogus_Phase"
UnknownLane == "bogus_lane"

\* A lane id that no phase of PHASES references.
ExtraLane == "u_turn"

\* Intersection.__init__(configuration): the lane lists an intersection is
\* constructed from.  _setup_intersection passes LaneOrder; a caller of the
\* class may pass a list with a lane more, or a lane less.
Configurations ==
    { LaneOrder, Append(LaneOrder, ExtraLane), Tail(LaneOrder) }

\* intersection.lanes.values(): the lanes in the order of the configuration
ConfigOrder(L) ==
    IF ExtraLane \in DOMAIN L THEN Append(LaneOrder, ExtraLane) ELSE LaneOrder

\* Vehicle.is_emergency
EmergencyTypes == { "ambulance", "fire_truck", "police" }

is_emergency(v) == v.vehicle_type \in EmergencyTypes

\* The dashboard's four injection buttons, and a call with an unknown lane.
InjectInputs ==
    { << "north_straight", "ambulance" >>, << "east_left", "fire_truck" >>,
      << "south_straight", "police" >>, << "west_left", "ambulance" >>,
      << UnknownLane, "ambulance" >> }

\* The call with a lane that the configuration has and no phase references.
ConfigInjectInputs == InjectInputs \cup { << ExtraLane, "police" >> }

\* The configurations a simulation is constructed with.
Configs ==
    { [ min_green |-> ScaledMinGreen, yellow |-> ScaledYellow,
        max_wait |-> ScaledMaxWait, dwell |-> ScaledDwell ] }

\* The default durations, with the dwells of the slider up to MaxScenarioDwell.
SliderDwells ==
    { d \in MinDwell..MaxScenarioDwell : (d - MinDwell) % DwellStep = 0 }

\* The default durations with every dwell of the slider.
TimerConfigs ==
    { [ min_green |-> DefaultMinGreen, yellow |-> DefaultYellow,
        max_wait |-> DefaultMaxWait, dwell |-> d ] :
      d \in { d \in MinDwell..MaxDwell : (d - MinDwell) % DwellStep = 0 } }

\* Short durations with the default starvation threshold.
PriorityConfigs ==
    { [ min_green |-> PriorityMinGreen, yellow |-> ScaledYellow,
        max_wait |-> DefaultMaxWait, dwell |-> ScaledDwell ] }

ScenarioConfigs ==
    { [ min_green |-> DefaultMinGreen, yellow |-> DefaultYellow,
        max_wait |-> DefaultMaxWait, dwell |-> d ] : d \in SliderDwells }

VARIABLES
    logic_mode,               \* StreamlitSimulation.logic_mode: "ai" | "dumb"
    min_green_duration,       \* TrafficSignal.min_green_duration (all signals)
    yellow_duration,          \* TrafficSignal.yellow_duration (all signals)
    MAX_WAIT_THRESHOLD,       \* DynamicPriorityLogic.MAX_WAIT_THRESHOLD
    dumb_timer_duration,      \* StreamlitSimulation.dumb_timer_duration
    lanes,                    \* Intersection.lanes: lane id -> deque of Vehicle
    signals,                  \* Intersection.signals: phase -> [state, state_start_time]
    active_phase,             \* Intersection.active_phase
    is_in_yellow_phase,       \* Intersection.is_in_yellow_phase
    next_phase,               \* Intersection.next_phase (unset until first assigned)
    current_time,             \* StreamlitSimulation.current_time
    dumb_timer_last_switch,   \* StreamlitSimulation.dumb_timer_last_switch
    dumb_timer_current_index, \* StreamlitSimulation.dumb_timer_current_index
    total_cars_passed,        \* StreamlitSimulation.total_cars_passed
    total_wait_time,          \* StreamlitSimulation.total_wait_time
    event_log,                \* StreamlitSimulation.event_log
    id_counter,               \* Vehicle._id_counter
    injected_lanes,           \* history: lanes inject_emergency_vehicle has written
    injected_ids,             \* history: ids of the vehicles it has constructed
    activation_log,           \* history: the signals that turned green, with the tick
    returned_phase            \* the value of the last direct call of decide_next_phase

config == << logic_mode, min_green_duration, yellow_duration,
             MAX_WAIT_THRESHOLD, dumb_timer_duration >>

intersection == << signals, active_phase, is_in_yellow_phase, next_phase >>

orchestrator == << current_time, dumb_timer_last_switch,
                   dumb_timer_current_index, total_cars_passed,
                   total_wait_time, event_log >>

vars == << config, lanes, intersection, orchestrator, id_counter,
           injected_lanes, injected_ids, activation_log, returned_phase >>

\* ------------------------------------------------------------------------
\* Lane
\* ------------------------------------------------------------------------
\* Lane.get_longest_wait_time
get_longest_wait_time(q, t) ==
    IF q = << >> THEN 0 ELSE t - q[1].creation_time

\* ------------------------------------------------------------------------
\* TrafficSignal
\* ------------------------------------------------------------------------
\* TrafficSignal.set_state, on the signal table
set_state(sigs, p, s, t) ==
    [ sigs EXCEPT ![p] = [ state |-> s, state_start_time |-> t ] ]

\* Mutant of is_min_time_passed: the floor is met one tick early.
is_min_time_passed_early(sig, t, mg) ==
    IF sig.state = "green" THEN (t - sig.state_start_time) + 1 >= mg ELSE TRUE

\* TrafficSignal.is_min_time_passed
is_min_time_passed(sig, t, mg) ==
    IF sig.state = "green" THEN (t - sig.state_start_time) >= mg ELSE TRUE

\* Mutant of is_yellow_time_passed: the clearance lasts one tick longer.
is_yellow_time_passed_late(sig, t, yd) ==
    IF sig.state = "yellow" THEN (t - sig.state_start_time) > yd ELSE TRUE

\* TrafficSignal.is_yellow_time_passed
is_yellow_time_passed(sig, t, yd) ==
    IF sig.state = "yellow" THEN (t - sig.state_start_time) >= yd ELSE TRUE

\* ------------------------------------------------------------------------
\* Intersection.  An intersection value I is the record
\* [signals, active_phase, is_in_yellow_phase, next_phase].
\* ------------------------------------------------------------------------
TheIntersection ==
    [ signals |-> signals, active_phase |-> active_phase,
      is_in_yellow_phase |-> is_in_yellow_phase, next_phase |-> next_phase ]

\* set_phase, lines 93-102: all signals red, then the requested one green.
AllRed(sigs, t) ==
    [ p \in PhaseNames |-> [ state |-> "red", state_start_time |-> t ] ]

\* Mutant of activate_phase: the other signals are not turned red first.
activate_phase_keeps_others(I, phase_name, t) ==
    IF phase_name \in PhaseNames
    THEN [ signals |-> set_state(I.signals, phase_name, "green", t),
           active_phase |-> phase_name,
           is_in_yellow_phase |-> FALSE,
           next_phase |-> None ]
    ELSE I

activate_phase(I, phase_name, t) ==
    IF phase_name \in PhaseNames
    THEN [ signals |-> set_state(AllRed(I.signals, t), phase_name, "green", t),
           active_phase |-> phase_name,
           is_in_yellow_phase |-> FALSE,
           next_phase |-> None ]
    ELSE [ I EXCEPT !.signals = AllRed(I.signals, t) ]

\* Mutant of begin_clearance: the clearance flag is not raised.
begin_clearance_no_flag(I, phase_name, t, mg) ==
    IF ~ is_min_time_passed(I.signals[I.active_phase], t, mg)
    THEN I
    ELSE [ I EXCEPT !.signals = set_state(I.signals, I.active_phase, "yellow", t),
                    !.next_phase = phase_name ]

\* Mutant of begin_clearance: the other signals are set red again, with the
\* tick of the request as their entry tick.
begin_clearance_resets_others(I, phase_name, t, mg) ==
    IF ~ is_min_time_passed(I.signals[I.active_phase], t, mg)
    THEN I
    ELSE [ I EXCEPT !.signals = set_state(AllRed(I.signals, t),
                                          I.active_phase, "yellow", t),
                    !.is_in_yellow_phase = TRUE,
                    !.next_phase = phase_name ]

\* set_phase, lines 84-91: the active phase is green (not clearing).
begin_clearance(I, phase_name, t, mg) ==
    IF ~ is_min_time_passed(I.signals[I.active_phase], t, mg)
    THEN I
    ELSE [ I EXCEPT !.signals = set_state(I.signals, I.active_phase, "yellow", t),
                    !.is_in_yellow_phase = TRUE,
                    !.next_phase = phase_name ]

\* Mutant of set_phase: the switch is made at once, without a clearance.
set_phase_no_clearance(I, phase_name, t, mg) ==
    IF I.active_phase = phase_name
    THEN I
    ELSE activate_phase(I, phase_name, t)

\* Intersection.set_phase
set_phase(I, phase_name, t, mg) ==
    IF I.active_phase = phase_name
    THEN I
    ELSE IF I.active_phase # None /\ ~ I.is_in_yellow_phase
         THEN begin_clearance(I, phase_name, t, mg)
         ELSE activate_phase(I, phase_name, t)

\* Mutant of update_yellow_phase: the clearance ends with the first declared
\* phase, not with the recorded one.
update_yellow_phase_to_first(I, t, mg, yd) ==
    IF ~ I.is_in_yellow_phase \/ I.active_phase = None
    THEN I
    ELSE IF is_yellow_time_passed(I.signals[I.active_phase], t, yd)
         THEN activate_phase(I, PhaseOrder[1], t)
         ELSE I

\* Intersection.update_yellow_phase
update_yellow_phase(I, t, mg, yd) ==
    IF ~ I.is_in_yellow_phase \/ I.active_phase = None
    THEN I
    ELSE IF is_yellow_time_passed(I.signals[I.active_phase], t, yd)
         THEN set_phase(I, I.next_phase, t, mg)
         ELSE I

\* ------------------------------------------------------------------------
\* DynamicPriorityLogic.decide_next_phase(intersection, current_time).
\* L is intersection.lanes, I the rest of the intersection.
\* ------------------------------------------------------------------------
InSeq(x, s) == \E i \in 1..Len(s) : s[i] = x

\* lines 120-124: the first lane, in lanes order, whose wait exceeds the threshold
StarvingIndexes(L, t, th) ==
    { i \in 1..Len(ConfigOrder(L)) :
        get_longest_wait_time(L[ConfigOrder(L)[i]], t) > th }

Min(S) == CHOOSE x \in S : \A y \in S : x <= y

starving_lane(L, t, th) ==
    IF StarvingIndexes(L, t, th) = {} THEN None
    ELSE ConfigOrder(L)[Min(StarvingIndexes(L, t, th))]

\* lines 126-128: the first phase, in declaration order, that holds the lane
PhaseIndexesOfLane(lane_id) ==
    { i \in 1..Len(PhaseOrder) : InSeq(lane_id, PHASES[PhaseOrder[i]]) }

\* lines 131-135: the phases one of whose lanes has an emergency vehicle at its head
has_emergency_head(L, p) ==
    \E k \in 1..Len(PHASES[p]) :
        /\ L[PHASES[p][k]] # << >>
        /\ is_emergency(L[PHASES[p][k]][1])

EmergencyPhaseIndexes(L) ==
    { i \in 1..Len(PhaseOrder) : has_emergency_head(L, PhaseOrder[i]) }

\* lines 143-148: ten times the phase's score
RECURSIVE SumScore(_, _, _, _)
SumScore(L, lane_ids, k, t) ==
    IF k > Len(lane_ids) THEN 0
    ELSE Len(L[lane_ids[k]]) * W1
         + get_longest_wait_time(L[lane_ids[k]], t) * W2
         + SumScore(L, lane_ids, k + 1, t)

phase_score(L, p, t) == SumScore(L, PHASES[p], 1, t)

\* line 151: max(scores, key=scores.get) returns the first key, in insertion
\* order, that carries the maximal score
MaxScoreIndexes(L, t) ==
    LET scores == [ i \in 1..Len(PhaseOrder) |-> phase_score(L, PhaseOrder[i], t) ]
    IN  { i \in 1..Len(PhaseOrder) :
            \A j \in 1..Len(PhaseOrder) : scores[j] <= scores[i] }

\* Mutant of score_decision: the loop has no minimum-green return.
score_decision_no_stickiness(L, I, t, mg) ==
    PhaseOrder[Min(MaxScoreIndexes(L, t))]

\* Mutant of score_decision: among the maximal scores the last phase in
\* declaration order is returned.
score_decision_last_max(L, I, t, mg) ==
    IF /\ I.active_phase \in PhaseNames
       /\ ~ is_min_time_passed(I.signals[I.active_phase], t, mg)
    THEN I.active_phase
    ELSE PhaseOrder[CHOOSE i \in MaxScoreIndexes(L, t) :
                        \A j \in MaxScoreIndexes(L, t) : j <= i]

\* lines 138-151.  The loop returns the active phase when it reaches it with
\* the minimum green not met; no other return leaves the loop early.
score_decision(L, I, t, mg) ==
    IF /\ I.active_phase \in PhaseNames
       /\ ~ is_min_time_passed(I.signals[I.active_phase], t, mg)
    THEN I.active_phase
    ELSE PhaseOrder[Min(MaxScoreIndexes(L, t))]

\* Mutant of emergency_decision: the emergency override is skipped.
emergency_decision_skipped(L, I, t, mg) == score_decision(L, I, t, mg)

emergency_decision(L, I, t, mg) ==
    IF EmergencyPhaseIndexes(L) # {}
    THEN PhaseOrder[Min(EmergencyPhaseIndexes(L))]
    ELSE score_decision(L, I, t, mg)

\* Mutant of decide_next_phase: the starvation guard comes after the
\* emergency override.
decide_next_phase_guard_second(L, I, t, mg, th) ==
    IF EmergencyPhaseIndexes(L) # {}
    THEN PhaseOrder[Min(EmergencyPhaseIndexes(L))]
    ELSE IF /\ starving_lane(L, t, th) # None
            /\ PhaseIndexesOfLane(starving_lane(L, t, th)) # {}
         THEN PhaseOrder[Min(PhaseIndexesOfLane(starving_lane(L, t, th)))]
         ELSE score_decision(L, I, t, mg)

decide_next_phase(L, I, t, mg, th) ==
    IF /\ starving_lane(L, t, th) # None
       /\ PhaseIndexesOfLane(starving_lane(L, t, th)) # {}
    THEN PhaseOrder[Min(PhaseIndexesOfLane(starving_lane(L, t, th)))]
    ELSE emergency_decision(L, I, t, mg)

\* ------------------------------------------------------------------------
\* StreamlitSimulation
\* ------------------------------------------------------------------------
\* Vehicle.__init__: the id is the incremented class counter
Vehicle(id, vehicle_type, creation_time) ==
    [ id |-> id, vehicle_type |-> vehicle_type, creation_time |-> creation_time ]

\* step, lines 189-192: S is the set of lanes whose draw succeeds this tick;
\* the lanes are visited in profile order, so the ids follow that order.
Rank(S, l) ==
    Cardinality({ j \in 1..Len(LaneOrder) :
                    /\ LaneOrder[j] \in S
                    /\ \E i \in j..Len(LaneOrder) : LaneOrder[i] = l })

spawn_vehicles(L, S, t, idc) ==
    [ l \in DOMAIN L |->
        IF l \in S
        THEN Append(L[l], Vehicle(idc + Rank(S, l), "car", t))
        ELSE L[l] ]

\* Mutant of discharge_lane: the discharged vehicle is not counted.
discharge_lane_uncounted(D, lane_id, t) ==
    IF D.lanes[lane_id] = << >>
    THEN D
    ELSE [ D EXCEPT !.lanes[lane_id] = Tail(@) ]

\* Mutant of discharge_lane: the vehicle is taken from the tail (pop()).
discharge_lane_from_tail(D, lane_id, t) ==
    LET q == D.lanes[lane_id]
        v == q[Len(q)]
    IN  IF q = << >>
        THEN D
        ELSE [ lanes |-> [ D.lanes EXCEPT ![lane_id] = SubSeq(q, 1, Len(q) - 1) ],
               total_cars_passed |-> D.total_cars_passed + 1,
               total_wait_time |-> D.total_wait_time + (t - v.creation_time),
               event_log |->
                   Append(D.event_log,
                          [ time_step |-> t, vehicle_id |-> v.id,
                            origin_lane |-> lane_id,
                            wait_time |-> t - v.creation_time ]) ]

\* Mutant of discharge_lane: the entry is put at the front of the log
\* (insert(0, ...) for append).
discharge_lane_log_at_front(D, lane_id, t) ==
    IF D.lanes[lane_id] = << >>
    THEN D
    ELSE [ lanes |-> [ D.lanes EXCEPT ![lane_id] = Tail(@) ],
           total_cars_passed |-> D.total_cars_passed + 1,
           total_wait_time |->
               D.total_wait_time + (t - D.lanes[lane_id][1].creation_time),
           event_log |->
               << [ time_step |-> t,
                    vehicle_id |-> D.lanes[lane_id][1].id,
                    origin_lane |-> lane_id,
                    wait_time |-> t - D.lanes[lane_id][1].creation_time ] >>
               \o D.event_log ]

\* step, lines 210-218, for one lane of the green signal.
\* D is [lanes, total_cars_passed, total_wait_time, event_log].
discharge_lane(D, lane_id, t) ==
    IF D.lanes[lane_id] = << >>
    THEN D
    ELSE [ lanes |-> [ D.lanes EXCEPT ![lane_id] = Tail(@) ],
           total_cars_passed |-> D.total_cars_passed + 1,
           total_wait_time |->
               D.total_wait_time + (t - D.lanes[lane_id][1].creation_time),
           event_log |->
               Append(D.event_log,
                      [ time_step |-> t,
                        vehicle_id |-> D.lanes[lane_id][1].id,
                        origin_lane |-> lane_id,
                        wait_time |-> t - D.lanes[lane_id][1].creation_time ]) ]

\* step, line 209: the lanes of the green signal, in order
RECURSIVE discharge_lanes(_, _, _, _)
discharge_lanes(D, lane_ids, k, t) ==
    IF k > Len(lane_ids) THEN D
    ELSE discharge_lanes(discharge_lane(D, lane_ids[k], t), lane_ids, k + 1, t)

\* Mutant of process_green: the signal's state is not looked at.
process_green_any_state(D, I, t) ==
    IF I.active_phase # None
    THEN discharge_lanes(D, PHASES[I.active_phase], 1, t)
    ELSE D

\* step, lines 206-218
process_green(D, I, t) ==
    IF I.active_phase # None /\ I.signals[I.active_phase].state = "green"
    THEN discharge_lanes(D, PHASES[I.active_phase], 1, t)
    ELSE D

\* step, lines 199-203: [last_switch, index, I] after the fixed timer's turn
dumb_timer(I, t, last_switch, index, dwell, mg) ==
    IF t - last_switch >= dwell
    THEN [ last_switch |-> t,
           index |-> (index + 1) % Len(PhaseOrder),
           I |-> set_phase(I, PhaseOrder[((index + 1) % Len(PhaseOrder)) + 1], t, mg) ]
    ELSE [ last_switch |-> last_switch, index |-> index, I |-> I ]

\* step, lines 195-203: the strategy's turn
update_signal_logic(L, I, t, mode, last_switch, index, dwell, mg, th) ==
    IF mode = "ai"
    THEN [ last_switch |-> last_switch, index |-> index,
           I |-> set_phase(I, decide_next_phase(L, I, t, mg, th), t, mg) ]
    ELSE dumb_timer(I, t, last_switch, index, dwell, mg)

\* The signals that are green in I and are not green now (history only).
Activated(I) ==
    { p \in PhaseNames : I.signals[p].state = "green" /\ signals[p].state # "green" }

SetIntersection(I) ==
    /\ activation_log' =
         IF Activated(I) = {} THEN activation_log
         ELSE Append(activation_log,
                     [ phase |-> CHOOSE p \in Activated(I) : TRUE,
                       tick |-> current_time ])
    /\ signals' = I.signals
    /\ active_phase' = I.active_phase
    /\ is_in_yellow_phase' = I.is_in_yellow_phase
    /\ next_phase' = I.next_phase

\* step, line 183: the intersection after update_yellow_phase(current_time)
AfterYellowUpdate ==
    update_yellow_phase(TheIntersection, current_time,
                        min_green_duration, yellow_duration)

\* Mutant of StepClearing: the early return falls through to the increment at
\* the end of step() as well, and the tick counter advances twice.
StepClearing_ticks_twice ==
    /\ AfterYellowUpdate.is_in_yellow_phase
    /\ SetIntersection(AfterYellowUpdate)
    /\ current_time' = current_time + 2
    /\ UNCHANGED << config, returned_phase, lanes, dumb_timer_last_switch,
                    dumb_timer_current_index, total_cars_passed,
                    total_wait_time, event_log, id_counter, injected_lanes,
                    injected_ids >>

\* Mutant of StepClearing: the fixed timer's turn (lines 199-201) is taken
\* before the early return.
StepClearing_runs_timer ==
    /\ AfterYellowUpdate.is_in_yellow_phase
    /\ SetIntersection(AfterYellowUpdate)
    /\ current_time' = current_time + 1
    /\ IF current_time - dumb_timer_last_switch >= dumb_timer_duration
       THEN /\ dumb_timer_last_switch' = current_time
            /\ dumb_timer_current_index' =
                   (dumb_timer_current_index + 1) % Len(PhaseOrder)
       ELSE UNCHANGED << dumb_timer_last_switch, dumb_timer_current_index >>
    /\ UNCHANGED << config, returned_phase, lanes, total_cars_passed, total_wait_time,
                    event_log, id_counter, injected_lanes, injected_ids >>

\* step, lines 184-186: the clearance is still in progress after the update
StepClearing ==
    /\ AfterYellowUpdate.is_in_yellow_phase
    /\ SetIntersection(AfterYellowUpdate)
    /\ current_time' = current_time + 1
    /\ UNCHANGED << config, returned_phase, lanes, dumb_timer_last_switch,
                    dumb_timer_current_index, total_cars_passed,
                    total_wait_time, event_log, id_counter, injected_lanes,
                    injected_ids >>

\* step, lines 188-219: spawn, strategy, discharge, tick
StepNormal(S) ==
    LET t  == current_time
        I1 == AfterYellowUpdate
        L1 == spawn_vehicles(lanes, S, t, id_counter)
        U  == update_signal_logic(L1, I1, t, logic_mode, dumb_timer_last_switch,
                                  dumb_timer_current_index, dumb_timer_duration,
                                  min_green_duration, MAX_WAIT_THRESHOLD)
        D  == process_green([ lanes |-> L1,
                              total_cars_passed |-> total_cars_passed,
                              total_wait_time |-> total_wait_time,
                              event_log |-> event_log ], U.I, t)
    IN  /\ ~ AfterYellowUpdate.is_in_yellow_phase
        /\ SetIntersection(U.I)
        /\ dumb_timer_last_switch' = U.last_switch
        /\ dumb_timer_current_index' = U.index
        /\ lanes' = D.lanes
        /\ total_cars_passed' = D.total_cars_passed
        /\ total_wait_time' = D.total_wait_time
        /\ event_log' = D.event_log
        /\ id_counter' = id_counter + Cardinality(S)
        /\ current_time' = current_time + 1
        /\ UNCHANGED << config, returned_phase, injected_lanes, injected_ids >>

\* The outcomes of this tick's spawn draws (random.random() < spawn_prob, one
\* draw per lane of the profile; every lane's probability is strictly between
\* 0 and 1) that keep the vehicle count within max_vehicles.
SpawnDraws(max_vehicles) ==
    { S \in SUBSET LaneIds : id_counter + Cardinality(S) <= max_vehicles }

\* StreamlitSimulation.step
step(max_time, max_vehicles) ==
    /\ current_time < max_time
    /\ \/ StepClearing
       \/ \E S \in SpawnDraws(max_vehicles) : StepNormal(S)

\* Mutant of inject_emergency_vehicle: append() for appendleft().
inject_emergency_vehicle_at_tail(lane_id, ev_type, max_vehicles) ==
    /\ IF lane_id \in DOMAIN lanes
       THEN /\ id_counter < max_vehicles
            /\ lanes' = [ lanes EXCEPT ![lane_id] =
                            Append(@, Vehicle(id_counter + 1, ev_type, current_time)) ]
            /\ id_counter' = id_counter + 1
            /\ injected_lanes' = injected_lanes \cup { lane_id }
            /\ injected_ids' = injected_ids \cup { id_counter + 1 }
       ELSE UNCHANGED << lanes, id_counter, injected_lanes, injected_ids >>
    /\ UNCHANGED << config, returned_phase, intersection, orchestrator, activation_log >>

\* StreamlitSimulation.inject_emergency_vehicle
inject_emergency_vehicle(lane_id, ev_type, max_vehicles) ==
    /\ IF lane_id \in DOMAIN lanes
       THEN /\ id_counter < max_vehicles
            /\ lanes' = [ lanes EXCEPT ![lane_id] =
                            << Vehicle(id_counter + 1, ev_type, current_time) >> \o @ ]
            /\ id_counter' = id_counter + 1
            /\ injected_lanes' = injected_lanes \cup { lane_id }
            /\ injected_ids' = injected_ids \cup { id_counter + 1 }
       ELSE UNCHANGED << lanes, id_counter, injected_lanes, injected_ids >>
    /\ UNCHANGED << config, returned_phase, intersection, orchestrator, activation_log >>

Step == step(MaxTime, MaxVehicles)

Inject ==
    \E in \in InjectInputs : inject_emergency_vehicle(in[1], in[2], MaxVehicles)

\* A direct call intersection.set_phase(phase_name, current_time)
SetPhaseCall(phase_name) ==
    /\ SetIntersection(set_phase(TheIntersection, phase_name, current_time,
                                 min_green_duration))
    /\ UNCHANGED << config, returned_phase, lanes, orchestrator, id_counter, injected_lanes,
                    injected_ids >>

SetPhase == \E phase_name \in PhaseNames \cup { UnknownPhase } : SetPhaseCall(phase_name)

\* A direct call intersection.update_yellow_phase(current_time)
UpdateYellowPhase ==
    /\ SetIntersection(AfterYellowUpdate)
    /\ UNCHANGED << config, returned_phase, lanes, orchestrator, id_counter, injected_lanes,
                    injected_ids >>

SimStep == step(MaxSimTime, MaxSimVehicles)

SimInject ==
    \E in \in InjectInputs : inject_emergency_vehicle(in[1], in[2], MaxSimVehicles)

\* step() under a profile whose spawn probabilities are all 0: no draw
\* random.random() < 0 succeeds.
ScenarioStep ==
    /\ current_time < MaxScenarioTime
    /\ \/ StepClearing
       \/ StepNormal({})

ScenarioInject ==
    \E in \in InjectInputs :
        inject_emergency_vehicle(in[1], in[2], MaxScenarioVehicles)

DecideStep == step(MaxDecideTime, MaxDecideVehicles)

DecideInject ==
    \E in \in InjectInputs :
        inject_emergency_vehicle(in[1], in[2], MaxDecideVehicles)

PairStep == step(MaxPairTime, MaxPairVehicles)

PairInject ==
    \E in \in InjectInputs : inject_emergency_vehicle(in[1], in[2], MaxPairVehicles)

\* The other simulation of the process (the dashboard runs sims['dumb'] and
\* sims['ai']) constructs a Vehicle in its step() or its
\* inject_emergency_vehicle(): Vehicle.__init__ increments the class attribute
\* Vehicle._id_counter.  Its lanes, signals and metrics are its own objects.
OtherInstance ==
    /\ id_counter < MaxPairVehicles
    /\ id_counter' = id_counter + 1
    /\ UNCHANGED << config, returned_phase, lanes, intersection, orchestrator,
                    injected_lanes, injected_ids, activation_log >>

ConfigStep == step(MaxConfigTime, MaxConfigVehicles)

\* step() of the fixed-timer simulation with empty lanes and no successful
\* spawn draw, run without end.  The code reads ticks only in differences
\* (current_time - state_start_time at lines 47 and 51, current_time -
\* dumb_timer_last_switch at line 199), so the ticks are counted here from the
\* oldest tick the state holds: after the step, all of them are shifted by
\* the least of them, which changes no later comparison.  The histories are
\* not kept under this specification.
TimerStep ==
    LET t  == current_time
        I1 == AfterYellowUpdate
        U  == IF I1.is_in_yellow_phase
              THEN [ last_switch |-> dumb_timer_last_switch,
                     index |-> dumb_timer_current_index, I |-> I1 ]
              ELSE update_signal_logic(lanes, I1, t, logic_mode,
                                       dumb_timer_last_switch,
                                       dumb_timer_current_index, dumb_timer_duration,
                                       min_green_duration, MAX_WAIT_THRESHOLD)
        m  == Min({ t + 1, U.last_switch }
                  \cup { U.I.signals[p].state_start_time : p \in PhaseNames })
    IN  /\ logic_mode = "dumb"
        /\ \A l \in LaneIds : lanes[l] = << >>
        /\ signals' = [ p \in PhaseNames |->
                          [ state |-> U.I.signals[p].state,
                            state_start_time |-> U.I.signals[p].state_start_time - m ] ]
        /\ active_phase' = U.I.active_phase
        /\ is_in_yellow_phase' = U.I.is_in_yellow_phase
        /\ next_phase' = U.I.next_phase
        /\ dumb_timer_last_switch' = U.last_switch - m
        /\ dumb_timer_current_index' = U.index
        /\ current_time' = t + 1 - m
        /\ UNCHANGED << config, lanes, total_cars_passed, total_wait_time, event_log,
                        id_counter, injected_lanes, injected_ids, activation_log,
                        returned_phase >>

\* step() in a tick in which no spawn draw succeeds
PriorityStep ==
    /\ current_time < MaxPriorityTime
    /\ \/ StepClearing
       \/ StepNormal({})

PriorityInject ==
    \E in \in InjectInputs :
        inject_emergency_vehicle(in[1], in[2], MaxPriorityVehicles)

QueryStep == step(MaxQueryTime, MaxQueryVehicles)

QueryInject ==
    \E in \in InjectInputs :
        inject_emergency_vehicle(in[1], in[2], MaxQueryVehicles)

\* Mutant of DecideCall: the heads are taken with remove_vehicle() instead of
\* being read with vehicles[0].
DecideCall_consumes ==
    /\ returned_phase' = decide_next_phase(lanes, TheIntersection, current_time,
                                           min_green_duration, MAX_WAIT_THRESHOLD)
    /\ lanes' = [ l \in DOMAIN lanes |->
                     IF lanes[l] = << >> THEN << >> ELSE Tail(lanes[l]) ]
    /\ UNCHANGED << config, intersection, orchestrator, id_counter,
                    injected_lanes, injected_ids, activation_log >>

\* A direct call ai_logic.decide_next_phase(intersection, current_time):
\* lines 118-151 read the lanes, PHASES, active_phase and the signals, and
\* assign nothing but locals.
DecideCall ==
    /\ returned_phase' = decide_next_phase(lanes, TheIntersection, current_time,
                                           min_green_duration, MAX_WAIT_THRESHOLD)
    /\ UNCHANGED << config, lanes, intersection, orchestrator, id_counter,
                    injected_lanes, injected_ids, activation_log >>

ConfigInject ==
    \E in \in ConfigInjectInputs :
        inject_emergency_vehicle(in[1], in[2], MaxConfigVehicles)

\* StreamlitSimulation.__init__, Intersection.__init__, TrafficSignal.__init__
\* C is the set of durations, K the set of lane lists to construct from.
\* Line 73 looks up every lane of every phase in self.lanes: a configuration
\* that lacks one raises KeyError and constructs nothing.
InitWith(C, K) ==
    /\ logic_mode \in { "ai", "dumb" }
    /\ \E c \in C :
        /\ min_green_duration = c.min_green
        /\ yellow_duration = c.yellow
        /\ MAX_WAIT_THRESHOLD = c.max_wait
        /\ dumb_timer_duration = c.dwell
    /\ \E configuration \in K :
        /\ \A p \in PhaseNames : \A k \in 1..Len(PHASES[p]) :
               InSeq(PHASES[p][k], configuration)
        /\ lanes = [ l \in { configuration[i] : i \in 1..Len(configuration) }
                       |-> << >> ]
    /\ signals = [ p \in PhaseNames |-> [ state |-> "red", state_start_time |-> 0 ] ]
    /\ active_phase = None
    /\ is_in_yellow_phase = FALSE
    /\ next_phase = None
    /\ current_time = 0
    /\ dumb_timer_last_switch = 0
    /\ dumb_timer_current_index = 0
    /\ total_cars_passed = 0
    /\ total_wait_time = 0
    /\ event_log = << >>
    /\ id_counter = 0
    /\ injected_lanes = {}
    /\ injected_ids = {}
    /\ activation_log = << >>
    /\ returned_phase = None

\* The dashboard's simulations: _setup_intersection's lane list.
Init == InitWith(Configs, { LaneOrder })

\* Every operation of the classes, called by any client.
Next ==
    \/ Step
    \/ Inject
    \/ SetPhase
    \/ UpdateYellowPhase

Spec == Init /\ [][Next]_vars

\* The dashboard's main loop: only step() and the injection buttons.
NextSim ==
    \/ SimStep
    \/ SimInject

SpecSim == Init /\ [][NextSim]_vars

\* The scenarios: default durations, no spawns, step() and the buttons.
InitScenario == InitWith(ScenarioConfigs, { LaneOrder })

NextScenario ==
    \/ ScenarioStep
    \/ ScenarioInject

SpecScenario == InitScenario /\ [][NextScenario]_vars

\* The dashboard's loop again, for fewer ticks and with more vehicles.
NextDecide ==
    \/ DecideStep
    \/ DecideInject

SpecDecide == Init /\ [][NextDecide]_vars

\* The AI simulation and its injection buttons.
InitPriority == InitWith(PriorityConfigs, { LaneOrder }) /\ logic_mode = "ai"

NextPriority ==
    \/ PriorityStep
    \/ PriorityInject

SpecPriority == InitPriority /\ [][NextPriority]_vars

\* The fixed-timer simulation with the default durations and any dwell of the
\* slider; the main loop calls step() on every rerun while it is running.
InitTimer == InitWith(TimerConfigs, { LaneOrder }) /\ logic_mode = "dumb"

NextTimer == TimerStep

SpecTimer == InitTimer /\ [][NextTimer]_vars /\ WF_vars(TimerStep)

\* The dashboard's AI and timer simulations, and a client that queries the
\* decision function between the ticks.
NextQuery ==
    \/ QueryStep
    \/ QueryInject
    \/ DecideCall

SpecQuery == Init /\ [][NextQuery]_vars

\* Two simulations in one process, seen from one of them.
NextPair ==
    \/ PairStep
    \/ PairInject
    \/ OtherInstance

SpecPair == Init /\ [][NextPair]_vars

\* A simulation whose intersection is constructed from any lane list.
InitConfig == InitWith(Configs, Configurations)

NextConfig ==
    \/ ConfigStep
    \/ ConfigInject

SpecConfig == InitConfig /\ [][NextConfig]_vars

\* ------------------------------------------------------------------------
\* Properties
\* ------------------------------------------------------------------------
NonRed == { p \in PhaseNames : signals[p].state # "red" }

\* The phase a lane belongs to (every lane is in exactly one phase of PHASES)
PhaseOf(lane_id) == PhaseOrder[Min(PhaseIndexesOfLane(lane_id))]

\* C1: in every reachable state at most one phase's signal is green or yellow;
\* every other signal is red.
C1_MutualExclusion == Cardinality(NonRed) <= 1

\* C1 witness: under the AI strategy a phase is green that was activated after
\* tick 0, i.e. after the first phase was cleared, and the others are red.
C1_Witness ==
    /\ logic_mode = "ai"
    /\ active_phase # None
    /\ signals[active_phase].state = "green"
    /\ signals[active_phase].state_start_time > 0
    /\ NonRed = { active_phase }

\* C2: a signal goes from green to yellow only when at least min_green_duration
\* ticks have elapsed since it turned green, whoever issues the request.
C2_MinGreenFloor ==
    [][ \A p \in PhaseNames :
            (signals[p].state = "green" /\ signals'[p].state = "yellow")
            => (current_time - signals[p].state_start_time >= min_green_duration)
      ]_vars

\* C2 witness: a clearance has begun on a signal whose green started after
\* tick 0 (its yellow began at least min_green_duration ticks later).
C2_Witness ==
    /\ is_in_yellow_phase
    /\ active_phase # None
    /\ signals[active_phase].state = "yellow"
    /\ signals[active_phase].state_start_time > min_green_duration

\* C3 (as claimed): a signal that leaves yellow becomes red, and does so exactly
\* yellow_duration ticks after it turned yellow, whatever requests are issued
\* during the clearance; and it is never yellow for longer.
C3_YellowExact ==
    [][ \A p \in PhaseNames :
            /\ (signals[p].state = "yellow" /\ signals'[p].state # "yellow")
               => /\ signals'[p].state = "red"
                  /\ current_time - signals[p].state_start_time = yellow_duration
            /\ (signals'[p].state = "yellow")
               => (current_time' - signals'[p].state_start_time <= yellow_duration)
      ]_vars

\* C4: no operation moves a signal from green to red, from red to yellow or
\* from yellow to green.
C4_SignalCycle ==
    [][ \A p \in PhaseNames :
            /\ ~ (signals[p].state = "green" /\ signals'[p].state = "red")
            /\ ~ (signals[p].state = "red" /\ signals'[p].state = "yellow")
            /\ ~ (signals[p].state = "yellow" /\ signals'[p].state = "green")
      ]_vars

\* C4 witness: under the AI strategy a phase is active at every tick after 0,
\* so a signal that is red since a tick after 0 while another one is green
\* since that same tick has gone through the whole cycle.
C4_Witness ==
    /\ logic_mode = "ai"
    /\ \E p, q \in PhaseNames :
        /\ signals[p].state = "green"
        /\ signals[q].state = "red"
        /\ signals[p].state_start_time = signals[q].state_start_time
        /\ signals[p].state_start_time >= min_green_duration + yellow_duration

\* C5: whenever a phase is active and the intersection is not clearing, the
\* active phase's signal is green and every other signal is red.
C5_ActiveIsGreen ==
    (active_phase # None /\ ~ is_in_yellow_phase)
    => /\ signals[active_phase].state = "green"
       /\ \A q \in PhaseNames \ { active_phase } : signals[q].state = "red"

\* C5 witness: under the AI strategy a second phase has become active after a
\* clearance, and a later operation has left it active and not clearing.
C5_Witness ==
    /\ logic_mode = "ai"
    /\ active_phase \in PhaseNames
    /\ ~ is_in_yellow_phase
    /\ signals[active_phase].state_start_time > 0
    /\ current_time > signals[active_phase].state_start_time

\* The bound the starvation guard is said to give.
StarvationBound == MAX_WAIT_THRESHOLD + yellow_duration + min_green_duration

\* C6 (as claimed): under the AI strategy no vehicle waits longer than
\* starvation_threshold + yellow_duration + min_green_duration ticks for its
\* lane's phase to be granted green.  A vehicle still queued at tick
\* current_time behind a signal that is not green is granted green at
\* current_time at the earliest.  Stated for runs without any injection.
C6_StarvationBound ==
    (logic_mode = "ai" /\ injected_lanes = {})
    => \A l \in LaneIds : \A k \in 1..Len(lanes[l]) :
           signals[PhaseOf(l)].state # "green"
           => current_time - lanes[l][k].creation_time <= StarvationBound

NoLaneStarving(L) == StarvingIndexes(L, current_time, MAX_WAIT_THRESHOLD) = {}

\* inject_emergency_vehicle has just put a vehicle of an emergency type into
\* the empty lane lane_id.
InjectedIntoIdle(lane_id) ==
    /\ lanes[lane_id] = << >>
    /\ Len(lanes'[lane_id]) = 1
    /\ is_emergency(lanes'[lane_id][1])
    /\ current_time' = current_time

DecisionAfter ==
    decide_next_phase(lanes', TheIntersection', current_time',
                      min_green_duration', MAX_WAIT_THRESHOLD')

\* C7 (as claimed): after an injection into an idle lane the next decision is
\* that lane's phase unless some lane is starving, whatever the other lanes hold.
C7_PreemptionAlways ==
    [][ \A l \in LaneIds :
            (logic_mode = "ai" /\ InjectedIntoIdle(l) /\ NoLaneStarving(lanes'))
            => DecisionAfter = PhaseOf(l)
      ]_vars

\* C7 (amended): after an injection into an idle lane the next decision is that
\* lane's phase unless some lane is starving or a phase declared before the
\* lane's phase has an emergency vehicle at the head of one of its lanes.
C7_PreemptionFirstDeclared ==
    [][ \A l \in LaneIds :
            ( /\ logic_mode = "ai"
              /\ InjectedIntoIdle(l)
              /\ NoLaneStarving(lanes')
              /\ \A i \in EmergencyPhaseIndexes(lanes') :
                     i >= Min(PhaseIndexesOfLane(l)) )
            => DecisionAfter = PhaseOf(l)
      ]_vars

\* C7 witness: an emergency vehicle has just been injected into an idle lane
\* (it is alone in its lane and was created at the current tick), no lane is
\* starving, another phase is active and within its minimum green, and a
\* vehicle waits in a lane of yet another phase; the decision is the injected
\* lane's phase.
C7_Witness ==
    \E l \in LaneIds :
        /\ logic_mode = "ai"
        /\ Len(lanes[l]) = 1
        /\ is_emergency(lanes[l][1])
        /\ lanes[l][1].creation_time = current_time
        /\ NoLaneStarving(lanes)
        /\ active_phase \in PhaseNames \ { PhaseOf(l) }
        /\ ~ is_min_time_passed(signals[active_phase], current_time,
                                min_green_duration)
        /\ \E m \in LaneIds : PhaseOf(m) # PhaseOf(l) /\ lanes[m] # << >>
        /\ decide_next_phase(lanes, TheIntersection, current_time,
                             min_green_duration, MAX_WAIT_THRESHOLD) = PhaseOf(l)

RECURSIVE SumLen(_, _)
SumLen(L, k) ==
    IF k > Len(LaneOrder) THEN 0 ELSE Len(L[LaneOrder[k]]) + SumLen(L, k + 1)

\* C8: vehicles discharged plus vehicles queued in the lanes equals vehicles
\* created (spawned or injected), in every reachable state.
C8_Conservation == total_cars_passed + SumLen(lanes, 1) = id_counter

\* C8 witness: one vehicle has been discharged while another one, of an
\* injection or a spawn, is still queued.
C8_Witness ==
    /\ total_cars_passed >= 1
    /\ SumLen(lanes, 1) >= 1
    /\ injected_lanes # {}

\* The arrival tick of the vehicle of a discharge event
ArrivalOf(e) == e.time_step - e.wait_time

\* C9: in a lane that has received no injection, discharge events appear in
\* the log in arrival order (ids are handed out in creation order).
C9_FifoDischarge ==
    \A i, j \in 1..Len(event_log) :
        ( /\ i < j
          /\ event_log[i].origin_lane = event_log[j].origin_lane
          /\ event_log[i].origin_lane \notin injected_lanes )
        => /\ event_log[i].vehicle_id < event_log[j].vehicle_id
           /\ ArrivalOf(event_log[i]) <= ArrivalOf(event_log[j])

\* C9 witness: two vehicles that queued together in a lane without injection
\* have both been discharged (the second arrived before the first left).
C9_Witness ==
    \E i, j \in 1..Len(event_log) :
        /\ i < j
        /\ event_log[i].origin_lane = event_log[j].origin_lane
        /\ event_log[i].origin_lane \notin injected_lanes
        /\ ArrivalOf(event_log[j]) < event_log[i].time_step

SignalStates == [ p \in PhaseNames |-> signals[p].state ]

\* C10 (as claimed, entry ticks left aside): a set_phase request naming an
\* unknown phase leaves every signal's state, active_phase, the pending phase
\* and the clearance flag unchanged.
C10_UnknownPhaseRejected ==
    [][ SetPhaseCall(UnknownPhase)
        => /\ SignalStates' = SignalStates
           /\ UNCHANGED << active_phase, next_phase, is_in_yellow_phase >>
      ]_vars

\* The scenario's state: AI strategy, and the only vehicle ever constructed is
\* an ambulance that waits alone in lane lane_id.
AmbulanceAlone(lane_id) ==
    /\ logic_mode = "ai"
    /\ id_counter = 1
    /\ Len(lanes[lane_id]) = 1
    /\ lanes[lane_id][1].vehicle_type = "ambulance"

\* The ambulance was injected at the current tick, while a phase other than
\* its lane's is green and past its minimum green.
InjectedPastMinimum(lane_id) ==
    /\ lanes[lane_id][1].creation_time = current_time
    /\ active_phase \in PhaseNames \ { PhaseOf(lane_id) }
    /\ signals[active_phase].state = "green"
    /\ is_min_time_passed(signals[active_phase], current_time, min_green_duration)

\* The clearance that the step of the injection tick began is in progress.
ClearingFor(lane_id) ==
    /\ is_in_yellow_phase
    /\ active_phase \in PhaseNames
    /\ next_phase = PhaseOf(lane_id)
    /\ signals[active_phase].state = "yellow"
    /\ signals[active_phase].state_start_time = lanes[lane_id][1].creation_time

\* C11: with no spawns under the AI strategy, after one ambulance is injected
\* into a lane of phase P while another phase is green and past its minimum
\* green, the next step turns the old signal yellow with P pending; the old
\* signal stays yellow for exactly yellow_duration ticks; the step that ends
\* the clearance turns P green and discharges the ambulance in that same tick.
C11_AmbulanceScenario ==
    [][ \A l \in LaneIds :
            (AmbulanceAlone(l) /\ current_time' = current_time + 1)
            => /\ InjectedPastMinimum(l)
                  => /\ signals'[active_phase].state = "yellow"
                     /\ is_in_yellow_phase'
                     /\ next_phase' = PhaseOf(l)
                     /\ active_phase' = active_phase
                     /\ lanes' = lanes
               /\ ClearingFor(l)
                  => IF current_time - lanes[l][1].creation_time < yellow_duration
                     THEN /\ signals' = signals
                          /\ lanes' = lanes
                     ELSE /\ current_time - lanes[l][1].creation_time = yellow_duration
                          /\ signals'[active_phase].state = "red"
                          /\ signals'[PhaseOf(l)] =
                                 [ state |-> "green", state_start_time |-> current_time ]
                          /\ active_phase' = PhaseOf(l)
                          /\ lanes'[l] = << >>
                          /\ event_log' =
                                 Append(event_log,
                                        [ time_step |-> current_time,
                                          vehicle_id |-> lanes[l][1].id,
                                          origin_lane |-> l,
                                          wait_time |-> yellow_duration ])
      ]_vars

\* C11 witness: the scenario has run to its end.  The ambulance is the only
\* vehicle, its discharge is the only event, it waited yellow_duration ticks,
\* its phase is the second one activated and is green since the discharge
\* tick, and the first phase had been green for its minimum at the injection.
C11_Witness ==
    /\ logic_mode = "ai"
    /\ id_counter = 1
    /\ Len(event_log) = 1
    /\ event_log[1].origin_lane \in injected_lanes
    /\ event_log[1].wait_time = yellow_duration
    /\ Len(activation_log) = 2
    /\ activation_log[1].phase # activation_log[2].phase
    /\ activation_log[2].phase = PhaseOf(event_log[1].origin_lane)
    /\ activation_log[2].tick = event_log[1].time_step
    /\ ArrivalOf(event_log[1]) - activation_log[1].tick >= min_green_duration
    /\ signals[activation_log[2].phase].state = "green"

\* C12 (as claimed): fixed timer with dwell 20 and no vehicle at all; after
\* 80 = 4 * dwell calls of step() exactly 4 signals have turned green, and
\* they are the first four phases in declaration order.
C12_FourActivations ==
    ( /\ logic_mode = "dumb"
      /\ dumb_timer_duration = DefaultDwell
      /\ id_counter = 0
      /\ current_time = 4 * DefaultDwell )
    => /\ Len(activation_log) = 4
       /\ \A k \in 1..Len(activation_log) : activation_log[k].phase = PhaseOrder[k]

\* The position of a phase in declaration order, from 0
PhaseIndex(p) == (CHOOSE i \in 1..Len(PhaseOrder) : PhaseOrder[i] = p) - 1

\* C13 (as claimed): under the fixed timer, for every dwell of the slider, the
\* signals turn green in round-robin declaration order: after phase i the next
\* signal to turn green is phase (i + 1) mod N; no phase is skipped.
C13_RoundRobin ==
    logic_mode = "dumb"
    => \A k \in 1..(Len(activation_log) - 1) :
           PhaseIndex(activation_log[k + 1].phase)
               = (PhaseIndex(activation_log[k].phase) + 1) % Len(PhaseOrder)

\* The vehicles this instance has constructed so far: the ones it has
\* discharged and the ones in its lanes.
OwnVehicles == total_cars_passed + SumLen(lanes, 1)

\* C14 (as claimed): the instance's outputs depend on its own calls and draws
\* only.  In the run where the other instance makes no call, the n-th vehicle
\* this instance constructs carries id n; so in every run the vehicle_id
\* column of its event log holds no id above the number of vehicles the
\* instance has itself constructed.
C14_InstancesIndependent ==
    \A i \in 1..Len(event_log) : event_log[i].vehicle_id <= OwnVehicles

\* C15: every call of step() advances current_time by exactly one, whether a
\* clearance is in progress, completes in that step, or none is under way;
\* inject_emergency_vehicle, set_phase and update_yellow_phase leave it alone.
\* (Stated by contraposition: a transition that does not advance the tick by
\* one is no step(), and one that changes the tick is none of the others.)
C15_StepAdvancesTick ==
    [][ /\ current_time' # current_time + 1 => ~ Step
        /\ current_time' # current_time
              => ~ (Inject \/ SetPhase \/ UpdateYellowPhase)
      ]_vars

\* C15 witness: steps have run through a whole clearance and the last one
\* completed it: the tick counter stands one past the tick at which the
\* second phase turned green and the waiting vehicle was discharged, and
\* yellow_duration + 1 past the tick at which the vehicle arrived.
C15_Witness ==
    /\ Len(activation_log) = 2
    /\ Len(event_log) = 1
    /\ activation_log[2].tick = event_log[1].time_step
    /\ event_log[1].wait_time = yellow_duration
    /\ current_time = event_log[1].time_step + 1
    /\ current_time >= min_green_duration + yellow_duration + 1

\* C16 (as claimed): construction fails for a configuration with a lane that
\* zero phases, or more than one phase, reference; so every lane of every
\* reachable simulation state is referenced by exactly one phase of PHASES.
C16_LanesInOnePhase ==
    \A l \in DOMAIN lanes : Cardinality(PhaseIndexesOfLane(l)) = 1

\* decide_next_phase on the current state
Decision ==
    decide_next_phase(lanes, TheIntersection, current_time,
                      min_green_duration, MAX_WAIT_THRESHOLD)

HeadWait(lane_id) == get_longest_wait_time(lanes[lane_id], current_time)

\* the active phase's signal is green with fewer than min_green_duration
\* ticks elapsed
ActiveWithinMinimum ==
    /\ active_phase \in PhaseNames
    /\ signals[active_phase].state = "green"
    /\ current_time - signals[active_phase].state_start_time < min_green_duration

\* C17: whenever some lane's head_wait exceeds the starvation threshold,
\* decide_next_phase returns a phase one of whose lanes has a head_wait above
\* the threshold, whatever the emergency heads, the active phase's minimum
\* green and the scores are.
C17_StarvationFirst ==
    ~ NoLaneStarving(lanes)
    => \E k \in 1..Len(PHASES[Decision]) :
           HeadWait(PHASES[Decision][k]) > MAX_WAIT_THRESHOLD

\* C17 witness: a lane is starving while a lane of another phase has an
\* emergency vehicle at its head, that phase has a higher score than the
\* starving lane's, and the active phase, a third one, is within its minimum
\* green; the decision is the starving lane's phase.
C17_Witness ==
    \E l, m \in LaneIds :
        /\ HeadWait(l) > MAX_WAIT_THRESHOLD
        /\ lanes[m] # << >>
        /\ is_emergency(lanes[m][1])
        /\ PhaseOf(m) # PhaseOf(l)
        /\ phase_score(lanes, PhaseOf(m), current_time)
               > phase_score(lanes, PhaseOf(l), current_time)
        /\ ActiveWithinMinimum
        /\ active_phase \notin { PhaseOf(l), PhaseOf(m) }
        /\ Decision = PhaseOf(l)

Score(p) == phase_score(lanes, p, current_time)

\* C18: with no lane starving and no emergency vehicle at a lane head, while
\* the active phase's signal is green with fewer than min_green_duration
\* ticks elapsed, decide_next_phase returns the active phase.
C18_Stickiness ==
    ( /\ NoLaneStarving(lanes)
      /\ EmergencyPhaseIndexes(lanes) = {}
      /\ ActiveWithinMinimum )
    => Decision = active_phase

\* C18 witness: the active phase is within its minimum green, no lane is
\* starving, no emergency vehicle heads a lane, and a phase declared before
\* the active one has a higher score; the decision is the active phase.
C18_Witness ==
    /\ NoLaneStarving(lanes)
    /\ EmergencyPhaseIndexes(lanes) = {}
    /\ ActiveWithinMinimum
    /\ \E p \in PhaseNames :
           /\ PhaseIndex(p) < PhaseIndex(active_phase)
           /\ Score(p) > Score(active_phase)
    /\ Decision = active_phase

\* None of the starvation, emergency and stickiness rules applies.
NoRuleApplies ==
    /\ NoLaneStarving(lanes)
    /\ EmergencyPhaseIndexes(lanes) = {}
    /\ ~ ActiveWithinMinimum

\* C19: when none of the three rules applies, decide_next_phase returns a
\* phase of maximal score, the first such phase in declaration order; with
\* all lanes empty that is the first declared phase.
C19_ArgmaxFirstDeclared ==
    LET d  == Decision
        sc == [ p \in PhaseNames |-> Score(p) ]
    IN  NoRuleApplies
        => /\ \A p \in PhaseNames : sc[p] <= sc[d]
           /\ \A p \in PhaseNames : PhaseIndex(p) < PhaseIndex(d) => sc[p] < sc[d]
           /\ (\A l \in LaneIds : lanes[l] = << >>) => d = PhaseOrder[1]

\* C19 witness: no rule applies, a phase is active and past its minimum
\* green, two phases after the first declared one tie at the maximal score
\* above a third, positive one, and the decision is the earlier of the two.
C19_Witness ==
    /\ NoRuleApplies
    /\ active_phase \in PhaseNames
    /\ \E p, q, r \in PhaseNames :
           /\ 0 < PhaseIndex(p)
           /\ PhaseIndex(p) < PhaseIndex(q)
           /\ Score(p) = Score(q)
           /\ 0 < Score(r)
           /\ Score(r) < Score(p)
           /\ Decision = p

\* C20: a set_phase request for another phase than the active one, made while
\* the active signal is green, changes nothing (signal states and entry
\* ticks, active_phase, pending phase, clearance flag) if fewer than
\* min_green_duration ticks have elapsed; otherwise it turns only the active
\* signal yellow, records the requested name as pending and leaves
\* active_phase and every other signal as they are.
C20_RequestFrame ==
    [][ \A phase_name \in PhaseNames \cup { UnknownPhase } :
            ( /\ active_phase \in PhaseNames
              /\ phase_name # active_phase
              /\ signals[active_phase].state = "green"
              /\ SetPhaseCall(phase_name) )
            => IF current_time - signals[active_phase].state_start_time
                    < min_green_duration
               THEN UNCHANGED << signals, active_phase, next_phase,
                                 is_in_yellow_phase >>
               ELSE /\ signals' = [ signals EXCEPT ![active_phase] =
                                      [ state |-> "yellow",
                                        state_start_time |-> current_time ] ]
                    /\ next_phase' = phase_name
                    /\ is_in_yellow_phase'
                    /\ active_phase' = active_phase
      ]_vars

\* C20 witness: a request has begun a clearance of a phase that was not the
\* first one activated: the active signal is yellow since a tick at which its
\* minimum green had elapsed, a known phase is pending, and the other
\* signals are red with the entry tick of the activation, before the request.
C20_Witness ==
    /\ is_in_yellow_phase
    /\ active_phase \in PhaseNames
    /\ next_phase \in PhaseNames \ { active_phase }
    /\ signals[active_phase].state = "yellow"
    /\ Len(activation_log) >= 2
    /\ activation_log[Len(activation_log)].phase = active_phase
    /\ signals[active_phase].state_start_time
           >= activation_log[Len(activation_log)].tick + min_green_duration
    /\ \A q \in PhaseNames \ { active_phase } :
           signals[q] = [ state |-> "red",
                          state_start_time |->
                              activation_log[Len(activation_log)].tick ]

\* A clearance is in progress: the active signal is yellow and fewer than
\* yellow_duration ticks have elapsed.
ClearanceInProgress ==
    /\ is_in_yellow_phase
    /\ active_phase \in PhaseNames
    /\ signals[active_phase].state = "yellow"
    /\ current_time - signals[active_phase].state_start_time < yellow_duration

\* C21: a step() taken while a clearance is in progress changes the tick
\* counter only: lanes, signals, the rest of the intersection, the fixed
\* timer's index and last-switch tick, the metrics, the event log and the
\* vehicle counter are unchanged.
C21_ClearingStepFrame ==
    [][ (ClearanceInProgress /\ Step)
        => /\ current_time' = current_time + 1
           /\ UNCHANGED << lanes, signals, active_phase, next_phase,
                           is_in_yellow_phase, dumb_timer_last_switch,
                           dumb_timer_current_index, total_cars_passed,
                           total_wait_time, event_log, id_counter >>
      ]_vars

\* C21 witness: a step has been taken during a clearance (the tick counter
\* is past the tick at which the signal turned yellow, and the clearance is
\* still in progress) under the fixed timer, whose dwell has elapsed, while
\* a vehicle waits in a lane.
C21_Witness ==
    /\ ClearanceInProgress
    /\ current_time > signals[active_phase].state_start_time
    /\ logic_mode = "dumb"
    /\ current_time - dumb_timer_last_switch >= dumb_timer_duration
    /\ \E l \in LaneIds : lanes[l] # << >>

\* The positions of the entries that this transition adds to the event log
NewEvents == (Len(event_log) + 1)..Len(event_log')

\* C22: every discharge event is for a lane of the active phase, whose signal
\* is green at the tick of the event (the discharge is the last thing step()
\* does with the intersection, so after the step the signals are as they were
\* at the discharge); and a tick discharges at most one vehicle per lane.
C22_DischargeOnlyOnGreen ==
    [][ /\ \A i \in NewEvents :
               /\ active_phase' \in PhaseNames
               /\ InSeq(event_log'[i].origin_lane, PHASES[active_phase'])
               /\ signals'[active_phase'].state = "green"
               /\ event_log'[i].time_step = current_time
        /\ \A i, j \in NewEvents :
               event_log'[i].origin_lane = event_log'[j].origin_lane => i = j
        /\ \A l \in LaneIds :
               \A p \in PhaseNames :
                   (InSeq(l, PHASES[p]) /\ signals'[p].state # "green")
                   => \A k \in 1..Len(lanes[l]) : InSeq(lanes[l][k], lanes'[l])
      ]_vars

\* C22 witness: the last step discharged one vehicle from each of the two
\* lanes of the green phase, and left behind a vehicle that was queued in
\* one of them at that tick.
C22_Witness ==
    /\ Len(event_log) >= 2
    /\ LET e == event_log[Len(event_log)]
           f == event_log[Len(event_log) - 1]
       IN  /\ e.time_step = current_time - 1
           /\ f.time_step = e.time_step
           /\ f.origin_lane # e.origin_lane
           /\ active_phase \in PhaseNames
           /\ signals[active_phase].state = "green"
           /\ \E l \in { e.origin_lane, f.origin_lane } :
                  /\ lanes[l] # << >>
                  /\ lanes[l][1].creation_time <= e.time_step

\* C23: under step()-driven execution, while the intersection is clearing the
\* pending phase does not change, and the step that ends the clearance is the
\* one taken when yellow_duration has elapsed: it turns the yellow signal red
\* and, in the same step, the pending phase green and active.
C23_PendingPromoted ==
    [][ (is_in_yellow_phase /\ active_phase \in PhaseNames)
        => IF is_in_yellow_phase'
           THEN /\ next_phase' = next_phase
                /\ active_phase' = active_phase
                /\ signals' = signals
           ELSE /\ current_time - signals[active_phase].state_start_time
                       >= yellow_duration
                /\ signals[active_phase].state = "yellow"
                /\ signals'[active_phase].state = "red"
                /\ active_phase' = next_phase
                /\ signals'[next_phase] =
                       [ state |-> "green", state_start_time |-> current_time ]
                /\ current_time' = current_time + 1
      ]_vars

\* C23 witness: a clearance has just completed: the active phase is the
\* second or a later one activated, it is green since the last tick, no
\* clearance is in progress, and it is not the first declared phase.
C23_Witness ==
    /\ ~ is_in_yellow_phase
    /\ Len(activation_log) >= 2
    /\ activation_log[Len(activation_log)].phase = active_phase
    /\ activation_log[Len(activation_log)].tick = current_time - 1
    /\ signals[active_phase] =
           [ state |-> "green", state_start_time |-> current_time - 1 ]
    /\ active_phase # PhaseOrder[1]
    /\ next_phase = None

\* C24 (as claimed): in every reachable state the clearance flag is set if
\* and only if the active phase's signal is yellow; when it is set, the
\* pending phase is a phase other than the active one; when it is not set,
\* the pending phase is empty (never assigned, or None).
C24_PendingOnlyInClearance ==
    /\ is_in_yellow_phase
          <=> (active_phase \in PhaseNames /\ signals[active_phase].state = "yellow")
    /\ is_in_yellow_phase => next_phase \in PhaseNames \ { active_phase }
    /\ ~ is_in_yellow_phase => next_phase = None

\* C25: inject_emergency_vehicle(lane, class) puts a new vehicle of that
\* class, with the current tick as its arrival tick, at the head of the lane,
\* in front of the vehicles already there, whose order is kept; every other
\* lane, the signals and the rest of the intersection, the tick counter, the
\* fixed timer, the metrics and the event log are unchanged.  For an unknown
\* lane key nothing changes.
C25_InjectFrame ==
    [][ \A in \in InjectInputs :
            inject_emergency_vehicle(in[1], in[2], MaxDecideVehicles)
            => /\ UNCHANGED << signals, active_phase, is_in_yellow_phase,
                               next_phase, current_time, dumb_timer_last_switch,
                               dumb_timer_current_index, total_cars_passed,
                               total_wait_time, event_log >>
               /\ IF in[1] \in LaneIds
                  THEN /\ Len(lanes'[in[1]]) = Len(lanes[in[1]]) + 1
                       /\ lanes'[in[1]][1].vehicle_type = in[2]
                       /\ lanes'[in[1]][1].creation_time = current_time
                       /\ Tail(lanes'[in[1]]) = lanes[in[1]]
                       /\ \A l \in LaneIds \ { in[1] } : lanes'[l] = lanes[l]
                  ELSE lanes' = lanes
      ]_vars

\* C25 witness: a vehicle has just been injected in front of two vehicles
\* that were queued in the lane: the head is an emergency vehicle that
\* arrived at the current tick, and the two behind it arrived before, in the
\* order in which they stand.
C25_Witness ==
    \E l \in LaneIds :
        /\ Len(lanes[l]) = 3
        /\ is_emergency(lanes[l][1])
        /\ lanes[l][1].id \in injected_ids
        /\ lanes[l][1].creation_time = current_time
        /\ lanes[l][2].creation_time < lanes[l][3].creation_time
        /\ lanes[l][3].creation_time < current_time
        /\ lanes[l][2].id < lanes[l][3].id
        /\ lanes[l][3].id < lanes[l][1].id

ArrivalTick(l, id) ==
    IF \E k \in 1..Len(lanes[l]) : lanes[l][k].id = id
    THEN lanes[l][CHOOSE k \in 1..Len(lanes[l]) : lanes[l][k].id = id].creation_time
    ELSE current_time

\* C27: the event log is append-only and written only at discharge.  Every
\* transition keeps the entries it finds, in place; entries are added only by
\* a step() that ends with the active signal green, one per vehicle that
\* leaves the lanes, each with the tick of that step; the ticks of successive
\* entries never decrease; and each entry's wait_time is its tick minus the
\* arrival tick of its vehicle, and is not negative.
C27_LogAppendOnly ==
    [][ /\ Len(event_log') >= Len(event_log)
        /\ SubSeq(event_log', 1, Len(event_log)) = event_log
        /\ NewEvents # {}
           => /\ current_time' = current_time + 1
              /\ active_phase' \in PhaseNames
              /\ signals'[active_phase'].state = "green"
        /\ Cardinality(NewEvents)
              = (id_counter' - id_counter) + SumLen(lanes, 1) - SumLen(lanes', 1)
        /\ Cardinality(NewEvents) = total_cars_passed' - total_cars_passed
        /\ \A i \in NewEvents :
               /\ event_log'[i].time_step = current_time
               /\ event_log'[i].wait_time >= 0
               /\ event_log'[i].wait_time
                     = event_log'[i].time_step
                       - ArrivalTick(event_log'[i].origin_lane, event_log'[i].vehicle_id)
               /\ \A l \in LaneIds : \A k \in 1..Len(lanes'[l]) :
                      lanes'[l][k].id # event_log'[i].vehicle_id
        /\ \A i \in 1..(Len(event_log') - 1) :
               event_log'[i].time_step <= event_log'[i + 1].time_step
      ]_vars

\* C27 witness: the log holds three entries written at two different ticks,
\* one of them for a vehicle that had waited.
C27_Witness ==
    /\ Len(event_log) = 3
    /\ event_log[1].time_step < event_log[3].time_step
    /\ \E i \in 1..3 : event_log[i].wait_time > 0
    /\ \E i \in 1..3 : event_log[i].vehicle_id \in injected_ids

\* C28 (as claimed): under the fixed timer, for every dwell of the slider,
\* every phase of the phase table is green again and again as step() is
\* called without end.
C28_EveryPhaseGreenAgain ==
    \A p \in PhaseNames : []<>(signals[p].state = "green")

\* The bound C29 gives for the wait of an injected vehicle.
PriorityBound == yellow_duration + min_green_duration + yellow_duration

\* No head_wait has exceeded the starvation threshold so far: no vehicle can
\* have waited longer than the run has lasted.
NeverStarved == current_time <= MAX_WAIT_THRESHOLD

\* Some lane other than lane_id has had a priority vehicle at its head at a
\* tick from a to u.  An injected vehicle stands at the head or behind
\* vehicles injected after it, so a lane that holds one has one at its head:
\* the lanes that had one from a to u are those where one arrived by u and is
\* still queued, or was discharged at a or later.
OtherPriorityDuring(lane_id, a, u) ==
    \/ \E m \in LaneIds \ { lane_id } : \E k \in 1..Len(lanes[m]) :
           /\ lanes[m][k].id \in injected_ids
           /\ lanes[m][k].creation_time <= u
    \/ \E i \in 1..Len(event_log) :
           /\ event_log[i].origin_lane # lane_id
           /\ event_log[i].vehicle_id \in injected_ids
           /\ event_log[i].time_step >= a
           /\ ArrivalOf(event_log[i]) <= u

\* A vehicle has been injected into lane_id after vehicle id, by tick u.
InjectedAhead(lane_id, id, u) ==
    \/ \E k \in 1..Len(lanes[lane_id]) :
           /\ lanes[lane_id][k].id \in injected_ids
           /\ lanes[lane_id][k].id > id
           /\ lanes[lane_id][k].creation_time <= u
    \/ \E i \in 1..Len(event_log) :
           /\ event_log[i].origin_lane = lane_id
           /\ event_log[i].vehicle_id \in injected_ids
           /\ event_log[i].vehicle_id > id
           /\ ArrivalOf(event_log[i]) <= u

\* C29 (as claimed): under the AI strategy a priority vehicle injected at the
\* head of a lane is discharged within yellow_duration + min_green_duration +
\* yellow_duration ticks of its injection, if until then no lane is starving
\* and no other lane has a priority vehicle at its head.  A vehicle still
\* queued at tick current_time is discharged at current_time at the earliest.
C29_PriorityServedInTime ==
    /\ \A l \in LaneIds : \A k \in 1..Len(lanes[l]) :
           ( /\ lanes[l][k].id \in injected_ids
             /\ NeverStarved
             /\ ~ OtherPriorityDuring(l, lanes[l][k].creation_time, current_time) )
           => current_time - lanes[l][k].creation_time <= PriorityBound
    /\ \A i \in 1..Len(event_log) :
           ( /\ event_log[i].vehicle_id \in injected_ids
             /\ NeverStarved
             /\ ~ OtherPriorityDuring(event_log[i].origin_lane,
                                      ArrivalOf(event_log[i]), event_log[i].time_step) )
           => event_log[i].wait_time <= PriorityBound

\* C29 (as amended): the same, if moreover no vehicle is injected into the
\* vehicle's own lane before it is discharged.
C29_PriorityAloneServedInTime ==
    /\ \A l \in LaneIds : \A k \in 1..Len(lanes[l]) :
           ( /\ lanes[l][k].id \in injected_ids
             /\ NeverStarved
             /\ ~ OtherPriorityDuring(l, lanes[l][k].creation_time, current_time)
             /\ ~ InjectedAhead(l, lanes[l][k].id, current_time) )
           => current_time - lanes[l][k].creation_time <= PriorityBound
    /\ \A i \in 1..Len(event_log) :
           ( /\ event_log[i].vehicle_id \in injected_ids
             /\ NeverStarved
             /\ ~ OtherPriorityDuring(event_log[i].origin_lane,
                                      ArrivalOf(event_log[i]), event_log[i].time_step)
             /\ ~ InjectedAhead(event_log[i].origin_lane, event_log[i].vehicle_id,
                                event_log[i].time_step) )
           => event_log[i].wait_time <= PriorityBound

\* C29 witness: a vehicle injected during a clearance towards another phase,
\* alone in its lane and with no priority vehicle in another lane while it
\* waited, has been discharged after waiting through the rest of that
\* clearance, the other phase's minimum green and its own phase's clearance.
C29_Witness ==
    \E i \in 1..Len(event_log) :
        /\ event_log[i].vehicle_id \in injected_ids
        /\ NeverStarved
        /\ ~ OtherPriorityDuring(event_log[i].origin_lane,
                                 ArrivalOf(event_log[i]), event_log[i].time_step)
        /\ ~ InjectedAhead(event_log[i].origin_lane, event_log[i].vehicle_id,
                           event_log[i].time_step)
        /\ event_log[i].wait_time = PriorityBound - 1

====
